---- MODULE Spec2Model ----
(***************************************************************************)
(* GraphRAG core of the warehouse supply-chain assistant:                  *)
(*   QueryGenerator (scr/query_generator.py), QueryExecutor                *)
(*   (scr/executor.py), AnswerGenerator (scr/answer_generator.py) and the  *)
(*   orchestrator GraphRAGPipeline (scr/pipeline.py).                      *)
(*                                                                         *)
(* Conventions.                                                            *)
(*   - A text is a sequence of tokens.  "WS" is a run of whitespace,       *)
(*     "FENCE_CYPHER" is the markup ```cypher, "FENCE" is ```, lower-case  *)
(*     tokens ("match", "return") are the lower-case spellings of the      *)
(*     keywords.  str.strip, str.replace, str.upper and str.startswith are *)
(*     modelled on tokens.                                                 *)
(*   - A Python call returns either normally or by raising: Ok(v) and      *)
(*     Raise(msg).                                                         *)
(*   - A dictionary is a record over all the keys it may carry; a key that *)
(*     is not in the dictionary holds Absent, a key bound to None holds    *)
(*     Null.  Numbers and lists are tagged [t, v] so that "missing" and    *)
(*     "None" have a representation of the same shape.                     *)
(***************************************************************************)
EXTENDS Integers, Sequences, FiniteSets, TLC

(***************************************************************************)
(* Bounds of the model                                                     *)
(***************************************************************************)
MaxRecords == 2

(***************************************************************************)
(* Python values                                                           *)
(***************************************************************************)
Absent == "<absent>"
Null == "<null>"
Unhashable == "<list>"

Ok(v) == [ok |-> TRUE, val |-> v, exc |-> ""]
Raise(msg) == [ok |-> FALSE, val |-> <<>>, exc |-> msg]

PyList(s) == [t |-> "list", v |-> s]
NullList == [t |-> "null", v |-> <<>>]
AbsentList == [t |-> "absent", v |-> <<>>]

Num(n) == [t |-> "num", v |-> n]
NullNum == [t |-> "null", v |-> 0]
AbsentNum == [t |-> "absent", v |-> 0]

\* dict.get(key, default) and dict.setdefault(key, default) on a scalar slot
Get(x, default) == IF x = Absent THEN default ELSE x

\* the same on a tagged slot (list or number)
GetT(x, default) == IF x.t = "absent" THEN default ELSE x

(***************************************************************************)
(* Text operations (str.strip, str.replace, str.upper, str.startswith)     *)
(***************************************************************************)
RECURSIVE LStrip(_)
LStrip(s) == IF s = <<>> THEN <<>>
             ELSE IF Head(s) = "WS" THEN LStrip(Tail(s)) ELSE s

RECURSIVE RStrip(_)
RStrip(s) == IF s = <<>> THEN <<>>
             ELSE IF s[Len(s)] = "WS" THEN RStrip(SubSeq(s, 1, Len(s) - 1)) ELSE s

Strip(s) == RStrip(LStrip(s))

Replace(s, tok) == SelectSeq(s, LAMBDA x : x # tok)

UpperTok(x) == CASE x = "match" -> "MATCH"
                 [] x = "return" -> "RETURN"
                 [] x = "create" -> "CREATE"
                 [] OTHER -> x

Upper(s) == [i \in 1..Len(s) |-> UpperTok(s[i])]

StartsWith(s, toks) == s # <<>> /\ s[1] \in toks

Contains(s, tok) == \E i \in 1..Len(s) : s[i] = tok

(***************************************************************************)
(* Understanding (scr/query_generator.py)                                  *)
(***************************************************************************)
PyTrue == "True"
PyFalse == "False"

\* The default record of the JSONDecodeError branch of understand_query
GeneralDefault ==
    [intent |-> "general_query", entities |-> PyList(<<>>),
     risk_factors |-> PyList(<<>>), time_scope |-> "current",
     graph_pattern |-> "simple", complexity |-> "medium",
     data_focus |-> PyList(<<"warehouses">>), output_format |-> "summary",
     filters |-> PyList(<<>>), requires_comparison |-> PyFalse,
     requires_aggregation |-> PyFalse, requires_temporal_analysis |-> PyFalse,
     requires_geospatial_analysis |-> PyFalse]

\* The default record of the catch-all branch of understand_query
ErrorDefault == [GeneralDefault EXCEPT !.intent = "error"]

\* Intents the text-generation service may put in its JSON object: a missing
\* key, null, a JSON list, taxonomy intents and template keys.
ServiceIntents ==
    {Absent, Null, Unhashable, "risk_identification", "general_lookup",
     "high_risk_warehouses", "warehouse_risk_profile"}

\* Entity lists the service may return
ServiceEntities ==
    {NullList, PyList(<<>>), PyList(<<"warehouse">>), PyList(<<"zone", "WH_0042">>)}

\* How the service fills the keys of its JSON object other than intent and
\* entities: "full" (all with values), "omitted" (none of them), "nulls"
\* (all null)

Scalar(rest, v) == CASE rest = "full" -> v
                     [] rest = "omitted" -> Absent
                     [] OTHER -> Null

Listy(rest, v) == CASE rest = "full" -> PyList(v)
                    [] rest = "omitted" -> AbsentList
                    [] OTHER -> NullList

\* A JSON object returned by the service
ServiceObject(intent, entities, rest) ==
    [intent |-> intent, entities |-> entities,
     risk_factors |-> Listy(rest, <<"flood">>),
     time_scope |-> Scalar(rest, "last_3m"),
     graph_pattern |-> Scalar(rest, "aggregation"),
     complexity |-> Scalar(rest, "advanced"),
     data_focus |-> Listy(rest, <<"warehouses", "risk_events">>),
     output_format |-> Scalar(rest, "ranked"),
     filters |-> Listy(rest, <<"risk_score > 0.7">>),
     requires_comparison |-> Scalar(rest, PyTrue),
     requires_aggregation |-> Scalar(rest, PyTrue),
     requires_temporal_analysis |-> Scalar(rest, PyFalse),
     requires_geospatial_analysis |-> Scalar(rest, PyFalse)]

\* What the text-generation service does on the understanding call:
\* the call raises, the content is not JSON, the content is None, the content
\* is JSON but not an object, or the content is a JSON object.
UnderstandOutcomes ==
    {[kind |-> k, obj |-> GeneralDefault] :
        k \in {"call_fails", "not_json", "null_content", "json_non_object"}}
    \cup {[kind |-> "json_object", obj |-> ServiceObject(i, e, "full")] :
            i \in ServiceIntents, e \in ServiceEntities}
    \cup {[kind |-> "json_object", obj |-> ServiceObject(i, AbsentList, "omitted")] :
            i \in ServiceIntents}
    \cup {[kind |-> "json_object", obj |-> ServiceObject(i, NullList, "nulls")] :
            i \in ServiceIntents}

\* understand_query with a single except clause: every failure gives the
\* general default
understand_query_single_except(llm) ==
    CASE llm.kind = "json_object" -> llm.obj
      [] OTHER -> GeneralDefault

\* QueryGenerator.understand_query: json.loads of the content; JSONDecodeError
\* gives the general default, every other exception (the call itself,
\* json.loads(None), .get on a non-dict) gives the error default.
understand_query(llm) ==
    CASE llm.kind = "json_object" -> llm.obj
      [] llm.kind = "not_json" -> GeneralDefault
      [] OTHER -> ErrorDefault

(***************************************************************************)
(* Query texts                                                             *)
(***************************************************************************)
TemplateKeys ==
    {"high_risk_warehouses", "warehouse_risk_profile", "zone_risk_comparison",
     "infrastructure_impact", "manager_performance", "vulnerable_warehouses",
     "breakdown_patterns", "exploration", "capacity_analysis",
     "infrastructure_gaps", "market_risk_correlation", "performance_metrics",
     "location_risk_analysis", "temporal_risk_trends", "compliance_overview"}

\* Templates that end with a LIMIT clause
LimitedTemplates ==
    {"high_risk_warehouses", "manager_performance", "vulnerable_warehouses",
     "breakdown_patterns", "exploration", "infrastructure_gaps",
     "temporal_risk_trends"}

\* The template library: each text is a triple-quoted literal, so it starts
\* and ends with whitespace; "tpl:<key>" stands for the body of the query.
templates ==
    [k \in TemplateKeys |->
        <<"WS", "MATCH">>
        \o (IF k = "warehouse_risk_profile" THEN <<"$warehouse_id">> ELSE <<>>)
        \o <<"tpl:" \o k, "RETURN">>
        \o (IF k \in LimitedTemplates THEN <<"LIMIT">> ELSE <<>>)
        \o <<"WS">>]

\* get_template_query that serves only the templates without a parameter
get_template_query_parameterless(intent) ==
    IF intent = Unhashable THEN Raise("unhashable type: 'list'")
    ELSE IF intent \in TemplateKeys /\ ~Contains(templates[intent], "$warehouse_id")
    THEN Ok(templates[intent])
    ELSE Ok(<<>>)

\* QueryGenerator.get_template_query: templates.get(intent); None is <<>>.
\* A list as intent cannot be hashed: TypeError.
get_template_query(intent) ==
    IF intent = Unhashable THEN Raise("unhashable type: 'list'")
    ELSE IF intent \in TemplateKeys THEN Ok(templates[intent])
    ELSE Ok(<<>>)

\* What the text-generation service does on the query-generation call
CypherTexts ==
    { <<>>,
      <<"WS">>,
      <<"FENCE_CYPHER", "WS", "MATCH", "gen:read", "RETURN", "WS", "FENCE">>,
      <<"match", "gen:read", "return">>,
      <<"MATCH", "gen:noreturn">>,
      <<"gen:prose", "WS", "MATCH", "gen:read", "RETURN">>,
      <<"CREATE", "gen:write", "RETURN">> }

CypherOutcomes ==
    {[kind |-> k, text |-> <<>>] : k \in {"call_fails", "null_content"}}
    \cup {[kind |-> "text", text |-> t] : t \in CypherTexts}

\* QueryGenerator.generate_cypher: strip, drop the code fences, strip; any
\* exception inside the try (the call, .strip() on None) gives "".
generate_cypher(llm) ==
    IF llm.kind = "text"
    THEN Strip(Replace(Replace(Strip(llm.text), "FENCE_CYPHER"), "FENCE"))
    ELSE <<>>

\* QueryGenerator._validate_cypher_syntax
validate_cypher_syntax(cypher_query) ==
    IF Strip(cypher_query) = <<>> THEN FALSE
    ELSE IF ~StartsWith(Upper(cypher_query), {"MATCH", "CREATE", "MERGE"}) THEN FALSE
    ELSE IF ~Contains(Upper(cypher_query), "RETURN") THEN FALSE
    ELSE TRUE

\* 'WH_' in str(e)
HasWH(e) == e \in {"WH_0042", "WH_0001"}

\* next((e for e in entities if 'WH_' in str(e)), 'WH_0001')
FirstWH(ents) ==
    IF \E i \in 1..Len(ents) : HasWH(ents[i])
    THEN ents[CHOOSE i \in 1..Len(ents) :
                 HasWH(ents[i]) /\ \A j \in 1..(i - 1) : ~HasWH(ents[j])]
    ELSE "WH_0001"

\* QueryGenerator._generate_fallback_query.  The three texts are triple-quoted
\* literals returned as they are (leading newline and indentation included).
\* `'warehouse' in entities` on None raises TypeError.
generate_fallback_query(understanding) ==
    LET intent == Get(understanding.intent, "exploration")
        entities == GetT(understanding.entities, PyList(<<>>))
    IN IF intent = "risk_identification"
       THEN Ok(<<"WS", "MATCH", "fb:risk", "RETURN", "LIMIT", "WS">>)
       ELSE IF entities.t = "null"
       THEN Raise("argument of type 'NoneType' is not iterable")
       ELSE IF Contains(entities.v, "warehouse")
               \/ \E i \in 1..Len(entities.v) : HasWH(entities.v[i])
       THEN Ok(<<"WS", "MATCH", "fb:warehouse", FirstWH(entities.v), "RETURN", "WS">>)
       ELSE Ok(<<"WS", "MATCH", "fb:explore", "RETURN", "LIMIT", "WS">>)

\* The setdefault block of QueryGenerator.process_query
SetDefaults(u) ==
    [u EXCEPT
       !.complexity = Get(@, "medium"),
       !.graph_pattern = Get(@, "simple"),
       !.data_focus = GetT(@, PyList(<<"warehouses">>)),
       !.time_scope = Get(@, "current"),
       !.requires_comparison = Get(@, PyFalse),
       !.requires_aggregation = Get(@, PyFalse),
       !.requires_temporal_analysis = Get(@, PyFalse),
       !.requires_geospatial_analysis = Get(@, PyFalse),
       !.output_format = Get(@, "summary"),
       !.filters = GetT(@, PyList(<<>>))]

\* The value returned by QueryGenerator.process_query, with the tier that
\* produced the text and the number of query-generation service calls made.
Generated(q, u, tier, calls) ==
    Ok([cypher_query |-> q, understanding |-> u, tier |-> tier, cypher_calls |-> calls])

\* QueryGenerator.process_query
QG_process_query(llmU, llmC, use_templates) ==
    LET understanding == SetDefaults(understand_query(llmU))
        template == IF use_templates
                    THEN get_template_query(Get(understanding.intent, ""))
                    ELSE Ok(<<>>)
        cypher_query == generate_cypher(llmC)
        fallback_query == generate_fallback_query(understanding)
    IN IF ~template.ok THEN Raise(template.exc)
       ELSE IF template.val # <<>>
       THEN Generated(Strip(template.val), understanding, "template", 0)
       ELSE IF cypher_query # <<>> /\ validate_cypher_syntax(cypher_query)
       THEN Generated(cypher_query, understanding, "generated", 1)
       ELSE IF ~fallback_query.ok THEN Raise(fallback_query.exc)
       ELSE Generated(fallback_query.val, understanding, "fallback", 1)

(***************************************************************************)
(* Result records of the graph store                                       *)
(***************************************************************************)
\* A result record, over the fields the core reads.  risk_score is in
\* thousandths (0.75 is 750); a column the query does not return is Absent, a
\* column that is null in the store is Null.
Row(wid, score, rcount, icount, backup, fproof, fzone, zone) ==
    [warehouse_id |-> wid, risk_score |-> score, risk_count |-> rcount,
     incident_count |-> icount, has_backup |-> backup, flood_proof |-> fproof,
     in_flood_zone |-> fzone, zone |-> zone]

\* The columns of a record that the query returned
Keys(r) ==
    {k \in {"warehouse_id", "has_backup", "flood_proof", "in_flood_zone", "zone"} :
        r[k] # Absent}
    \cup {k \in {"risk_score", "risk_count", "incident_count"} : r[k].t # "absent"}

\* Records the store may hold for the queries of the model
RowPool ==
    { \* rows of the high_risk_warehouses template
      Row("WH_0001", Num(800), Num(5), AbsentNum, PyFalse, PyFalse, PyTrue, Absent),
      Row("WH_0002", Num(650), Num(1), AbsentNum, Null, Null, Null, Absent),
      \* a row of a query whose columns are not aliased (w.warehouse_id, ...)
      Row(Absent, AbsentNum, AbsentNum, AbsentNum, Absent, Absent, Absent, Absent),
      \* rows of generated queries
      Row("WH_0003", Num(500), AbsentNum, NullNum, Absent, Absent, Absent, Absent),
      Row("WH_0004", Num(300), AbsentNum, Num(3), Absent, Absent, Absent, Absent),
      Row("WH_0005", NullNum, AbsentNum, AbsentNum, Absent, Absent, Absent, Absent),
      \* a row of a zone comparison
      Row(Absent, AbsentNum, AbsentNum, AbsentNum, Absent, Absent, Absent, "North") }

\* The body token of a query text: the token after the leading keyword
Body(q) == LET s == Strip(q) IN
           IF Len(s) < 2 THEN ""
           ELSE IF s[2] = "$warehouse_id" /\ Len(s) > 2 THEN s[3] ELSE s[2]

\* The aliased columns each query of the model returns, among the fields of Row
HighRiskColumns ==
    {"warehouse_id", "risk_score", "risk_count", "has_backup", "flood_proof",
     "in_flood_zone"}

\* Whether the store can return record r for the query text q
Fits(r, q) ==
    LET b == Body(q) IN
    CASE b = "tpl:high_risk_warehouses" ->
            /\ Keys(r) = HighRiskColumns
            /\ r.warehouse_id # Null
            /\ r.risk_score.t = "num" /\ r.risk_score.v > 600
            /\ r.risk_count.t = "num" /\ r.risk_count.v >= 1
      [] b \in {"fb:risk", "fb:warehouse", "fb:explore"} ->
            Keys(r) = {}
      [] b \in {"gen:read", "gen:write"} -> TRUE
      [] OTHER -> FALSE

\* All sequences over S of length at most n
RECURSIVE SeqsUpTo(_, _)
SeqsUpTo(S, n) ==
    IF n = 0 THEN {<<>>}
    ELSE LET shorter == SeqsUpTo(S, n - 1)
         IN shorter \cup {Append(s, x) : s \in {t \in shorter : Len(t) = n - 1}, x \in S}

\* The record lists the store may return for q: the rows of one query all
\* have the same columns.
ResultLists(q) ==
    {rs \in SeqsUpTo({r \in RowPool : Fits(r, q)}, MaxRecords) :
        \A i, j \in 1..Len(rs) : Keys(rs[i]) = Keys(rs[j])}

\* The query parameters of the texts of the model
ParamTokens ==
    {"$warehouse_id", "$warehouse_ids", "$location_type", "$risk_score", "$limit"}

\* The parameters a query text refers to
ParamsOf(q) == {q[i] : i \in {j \in 1..Len(q) : q[j] \in ParamTokens}}

\* What the store does with query q run with the parameters params: it raises
\* (unreachable, query rejected, or a parameter of the query is missing), or
\* it returns records.
StoreOutcomes(q, params, lists) ==
    {[raised |-> TRUE, rows |-> <<>>]}
    \cup (IF ParamsOf(q) \subseteq params
          THEN {[raised |-> FALSE, rows |-> rs] : rs \in lists}
          ELSE {})

(***************************************************************************)
(* QueryExecutor (scr/executor.py)                                         *)
(***************************************************************************)
\* execute_query without its except clause: the store's error reaches the caller
execute_query_propagating(store) ==
    IF store.raised THEN Raise("ServiceUnavailable") ELSE Ok(store.rows)

\* QueryExecutor.execute_query: the whole body is in try/except Exception
execute_query(store) ==
    IF store.raised THEN Ok(<<>>) ELSE Ok(store.rows)

Take(s, n) == SubSeq(s, 1, IF Len(s) < n THEN Len(s) ELSE n)

\* The warehouse_ids list of execute_with_context: the value of every record
\* that has the key
WarehouseIds(rows) ==
    LET has == SelectSeq(rows, LAMBDA r : r.warehouse_id # Absent)
    IN [i \in 1..Len(has) |-> has[i].warehouse_id]

RelatedQuery == <<"WS", "MATCH", "$warehouse_ids", "ctx:related", "RETURN", "WS">>
RiskQuery == <<"WS", "MATCH", "$warehouse_ids", "ctx:risk", "RETURN", "WS">>

\* Rows the follow-up queries may return
RelatedLists == {<<>>, <<[warehouse_id |-> "WH_0001", region |-> "R1", zone |-> "North"]>>}
RiskLists ==
    {<<>>,
     <<[event_type |-> "flood", total_occurrences |-> 3],
       [event_type |-> "flood", total_occurrences |-> 2]>>}

FollowOutcomes(lists) ==
    {[raised |-> TRUE, rows |-> <<>>]} \cup {[raised |-> FALSE, rows |-> rs] : rs \in lists}

RECURSIVE SumOccurrences(_, _)
SumOccurrences(rows, e) ==
    IF rows = <<>> THEN 0
    ELSE (IF Head(rows).event_type = e THEN Head(rows).total_occurrences ELSE 0)
         + SumOccurrences(Tail(rows), e)

\* The dictionary built by QueryExecutor._get_risk_summary from the rows
get_risk_summary(rows) ==
    [e \in {rows[i].event_type : i \in 1..Len(rows)} |-> SumOccurrences(rows, e)]

RECURSIVE SumScores(_)
SumScores(rows) ==
    IF rows = <<>> THEN 0
    ELSE GetT(Head(rows).risk_score, Num(0)).v + SumScores(Tail(rows))

\* QueryExecutor._generate_results_summary.  The average is kept as the pair
\* (total, count); sum() over a None risk_score raises TypeError.
generate_results_summary(results) ==
    IF results = <<>> THEN Ok([kind |-> "No results found", count |-> 0, total |-> 0])
    ELSE IF results[1].risk_score.t # "absent"
    THEN IF \E i \in 1..Len(results) : results[i].risk_score.t = "null"
         THEN Raise("unsupported operand type(s) for +: 'int' and 'NoneType'")
         ELSE Ok([kind |-> "average risk score", count |-> Len(results),
                  total |-> SumScores(results)])
    ELSE IF results[1].zone # Absent
    THEN Ok([kind |-> "zones",
             count |-> Len(results),
             total |-> Cardinality({results[i].zone : i \in 1..Len(results)})])
    ELSE Ok([kind |-> "results", count |-> Len(results), total |-> 0])

NoContext == [keys |-> {}, related_entities |-> <<>>, risk_summary |-> <<>>]

\* QueryExecutor.execute_with_context, given what the store does with the
\* primary query and with the two follow-up queries
execute_with_context(primary, related, risk) ==
    LET primary_results == execute_query(primary)
    IN IF ~primary_results.ok THEN Raise(primary_results.exc)
       ELSE IF primary_results.val = <<>>
       THEN Ok([results |-> <<>>, context |-> NoContext,
                summary |-> [kind |-> "No results found", count |-> 0, total |-> 0]])
       ELSE LET warehouse_ids == WarehouseIds(primary_results.val)
                rel == execute_query(related)
                rsk == execute_query(risk)
                summary == generate_results_summary(primary_results.val)
            IN IF warehouse_ids # <<>> /\ ~rel.ok THEN Raise(rel.exc)
               ELSE IF warehouse_ids # <<>> /\ ~rsk.ok THEN Raise(rsk.exc)
               ELSE IF ~summary.ok THEN Raise(summary.exc)
               ELSE Ok([results |-> primary_results.val,
                        context |->
                          IF warehouse_ids # <<>>
                          THEN [keys |-> {"related_entities", "risk_summary"},
                                related_entities |-> rel.val,
                                risk_summary |-> get_risk_summary(rsk.val)]
                          ELSE NoContext,
                        summary |-> summary.val])

\* One entry of the log of calls of execute_query: the text and the parameters
\* submitted, what the store did, and what execute_query gave its caller.
StoreCall(q, params, ids, store) ==
    [query |-> q, params |-> params, ids |-> ids, store |-> store,
     ret |-> execute_query(store)]

\* The calls of execute_query made by execute_with_context
ExecCalls(q, primary, related, risk) ==
    LET first == StoreCall(q, {}, <<>>, primary)
        ids == IF first.ret.ok THEN WarehouseIds(first.ret.val) ELSE <<>>
        second == StoreCall(RelatedQuery, {"$warehouse_ids"}, Take(ids, 5), related)
        third == StoreCall(RiskQuery, {"$warehouse_ids"}, Take(ids, 5), risk)
    IN IF ids = <<>> THEN <<first>>
       ELSE IF ~second.ret.ok THEN <<first, second>>
       ELSE <<first, second, third>>

\* Messages of the TypeError raised by comparing None with a number
NoneCompare == "'>' not supported between instances of 'NoneType' and 'int'"
NoneCompareFloat == "'>' not supported between instances of 'NoneType' and 'float'"

\* Python truth value of a flag slot
Truthy(x) == x = PyTrue \/ (x \notin {PyFalse, Null, "", Absent})

(***************************************************************************)
(* AnswerGenerator (scr/answer_generator.py)                               *)
(***************************************************************************)
PyStr(frags) == [t |-> "str", v |-> frags]
NullStr == [t |-> "null", v |-> <<>>]

\* What the text-generation service does on a synthesis call: it returns a
\* text, it returns a message whose content is None, or the call raises.
SynthesisOutcomes == {"text", "null_content", "call_fails"}

\* The body of the try block of a synthesis operation, with its fixed string
Synthesize(llm, reply, fixed) ==
    CASE llm = "text" -> Ok(PyStr(<<reply>>))
      [] llm = "null_content" -> Ok(NullStr)
      [] OTHER -> Ok(PyStr(<<fixed>>))

AnswerError == "Error generating answer. Please try again."
AssessmentError == "Error generating risk assessment"
RecommendationsError == "Error generating recommendations"
ComparisonError == "Error generating comparison"

\* AnswerGenerator._format_risk_results: f"{risk_score:.3f}" on None raises
format_risk_results(results) ==
    IF \E i \in 1..Len(Take(results, 10)) : results[i].risk_score.t = "null"
    THEN Raise("unsupported format string passed to NoneType.__format__")
    ELSE Ok("risk list")

\* AnswerGenerator._format_results_summary
format_results_summary(results, understanding) ==
    LET intent == Get(understanding.intent, "general")
    IN IF results = <<>> THEN Ok("No results found.")
       ELSE IF intent = "risk_identification" THEN format_risk_results(results)
       ELSE IF intent = "comparison" THEN Ok("comparison list")
       ELSE Ok("raw dump")

\* AnswerGenerator.generate_answer: extract_context (its own service call, its
\* result is not used), the results summary and the prompt outside the try,
\* then the answer call inside the try.
generate_answer(results, understanding, llm) ==
    LET results_summary == format_results_summary(results, understanding)
    IN IF ~results_summary.ok THEN Raise(results_summary.exc)
       ELSE Synthesize(llm, "svc:answer", AnswerError)

\* The service calls made by one generate_answer: the one of extract_context
\* when there are results, and the answer call when it is reached
AnswerCalls(results, understanding) ==
    (IF results = <<>> THEN 0 ELSE 1)
    + (IF format_results_summary(results, understanding).ok THEN 1 ELSE 0)

\* The record of the aggregate profile query, as get_warehouse_profile hands
\* it to the Answer Generator.  risk_score is the top-level key read by
\* _identify_issues; the profile query returns the warehouse node under w and
\* no top-level risk_score.
WarehouseData(score, wscore, risks, infra) ==
    [risk_score |-> score,
     w |-> [warehouse_id |-> "WH_0001", location_type |-> "Urban", risk_score |-> wscore],
     risks |-> risks,
     infrastructure |-> infra]

NullNode == [t |-> "null", has_electric_backup |-> Absent, is_flood_proof |-> Absent]
\* The key infrastructure is not in the record: .get gives the default {}
AbsentNode == [t |-> "absent", has_electric_backup |-> Absent, is_flood_proof |-> Absent]
Node(backup, fproof) ==
    [t |-> "node", has_electric_backup |-> backup, is_flood_proof |-> fproof]

\* One entry of the risks list: collect(DISTINCT {type, count, severity})
RiskEntry(type, count) == [type |-> type, count |-> count]

Issue(type, severity, subject) == [type |-> type, severity |-> severity, subject |-> subject]

\* The loop over the risks of AnswerGenerator._identify_issues
RECURSIVE RecurringIssues(_)
RecurringIssues(risks) ==
    IF risks = <<>> THEN Ok(<<>>)
    ELSE LET risk == Head(risks)
             count == GetT(risk.count, Num(0))
             rest == RecurringIssues(Tail(risks))
         IN IF count.t = "null" THEN Raise(NoneCompare)
            ELSE IF ~rest.ok THEN rest
            ELSE IF count.v > 2
            THEN Ok(<<Issue("recurring_incident", "high", risk.type)>> \o rest.val)
            ELSE rest

\* _identify_issues that counts an event type as recurring from two events on
identify_issues_from_two(warehouse_data) ==
    LET risk_score == GetT(warehouse_data.risk_score, Num(0))
        infra == warehouse_data.infrastructure
        risks == GetT(warehouse_data.risks, PyList(<<>>))
        recurring ==
            SelectSeq(risks.v, LAMBDA risk : GetT(risk.count, Num(0)).v >= 2)
    IN IF risk_score.t = "null" THEN Raise(NoneCompareFloat)
       ELSE IF infra.t = "null" THEN Raise("'NoneType' object has no attribute 'get'")
       ELSE IF risks.t = "null" THEN Raise("'NoneType' object is not iterable")
       ELSE IF \E i \in 1..Len(risks.v) : GetT(risks.v[i].count, Num(0)).t = "null"
       THEN Raise(NoneCompare)
       ELSE Ok((IF risk_score.v > 700
                THEN <<Issue("high_risk", "critical", "risk_score")>> ELSE <<>>)
               \o (IF ~Truthy(Get(infra.has_electric_backup, Null))
                   THEN <<Issue("infrastructure", "high", "No electric backup system")>>
                   ELSE <<>>)
               \o (IF ~Truthy(Get(infra.is_flood_proof, Null))
                   THEN <<Issue("infrastructure", "medium", "Not flood-proof")>>
                   ELSE <<>>)
               \o [i \in 1..Len(recurring) |->
                     Issue("recurring_incident", "high", recurring[i].type)])

\* AnswerGenerator._identify_issues
identify_issues(warehouse_data) ==
    LET risk_score == GetT(warehouse_data.risk_score, Num(0))
        infra == warehouse_data.infrastructure
        risks == GetT(warehouse_data.risks, PyList(<<>>))
        recurring == RecurringIssues(risks.v)
    IN IF risk_score.t = "null" THEN Raise(NoneCompareFloat)
       ELSE IF infra.t = "null" THEN Raise("'NoneType' object has no attribute 'get'")
       ELSE IF risks.t = "null" THEN Raise("'NoneType' object is not iterable")
       ELSE IF ~recurring.ok THEN recurring
       ELSE Ok((IF risk_score.v > 700
                THEN <<Issue("high_risk", "critical", "risk_score")>> ELSE <<>>)
               \o (IF ~Truthy(Get(infra.has_electric_backup, Null))
                   THEN <<Issue("infrastructure", "high", "No electric backup system")>>
                   ELSE <<>>)
               \o (IF ~Truthy(Get(infra.is_flood_proof, Null))
                   THEN <<Issue("infrastructure", "medium", "Not flood-proof")>>
                   ELSE <<>>)
               \o recurring.val)

\* AnswerGenerator.generate_risk_assessment: the prompt is built outside the
\* try, with json.dumps of the infrastructure value without default=str; the
\* store's node object is not JSON serializable (None is).
generate_risk_assessment(warehouse_data, llm) ==
    IF warehouse_data.infrastructure.t = "node"
    THEN Raise("Object of type Node is not JSON serializable")
    ELSE Synthesize(llm, "svc:assessment", AssessmentError)

\* AnswerGenerator.generate_recommendations: the issue list and the prompt are
\* built outside the try
AG_generate_recommendations(warehouse_data, llm) ==
    LET issues == identify_issues(warehouse_data)
    IN IF ~issues.ok THEN Raise(issues.exc)
       ELSE Synthesize(llm, "svc:recommendations", RecommendationsError)

\* AnswerGenerator.generate_comparison
generate_comparison(warehouses, llm) ==
    Synthesize(llm, "svc:comparison", ComparisonError)

\* One entry of the log of calls of the Answer Generator
AnswerGeneratorCall(op, llm, ret) == [op |-> op, llm |-> llm, ret |-> ret]

(***************************************************************************)
(* Recommendations of the orchestrator (scr/pipeline.py)                   *)
(***************************************************************************)
\* Python truth value of a number slot: None and 0 are false
TruthyNum(x) == x.t = "num" /\ x.v # 0

\* _calculate_priority with inclusive comparisons
calculate_priority_inclusive(record) ==
    LET risk_score == GetT(record.risk_score, Num(0))
        incident_count == IF TruthyNum(GetT(record.risk_count, Num(0)))
                          THEN GetT(record.risk_count, Num(0))
                          ELSE GetT(record.incident_count, Num(0))
    IN IF risk_score.t = "null" THEN Raise(NoneCompareFloat)
       ELSE IF risk_score.v >= 750 THEN Ok("CRITICAL")
       ELSE IF incident_count.t = "null" THEN Raise(NoneCompare)
       ELSE IF incident_count.v >= 3 THEN Ok("CRITICAL")
       ELSE IF risk_score.v >= 600 \/ incident_count.v >= 2 THEN Ok("HIGH")
       ELSE IF risk_score.v >= 400 THEN Ok("MEDIUM")
       ELSE Ok("LOW")

\* GraphRAGPipeline._calculate_priority
calculate_priority(record) ==
    LET risk_score == GetT(record.risk_score, Num(0))
        incident_count == IF TruthyNum(GetT(record.risk_count, Num(0)))
                          THEN GetT(record.risk_count, Num(0))
                          ELSE GetT(record.incident_count, Num(0))
    IN IF risk_score.t = "null" THEN Raise(NoneCompareFloat)
       ELSE IF risk_score.v > 750 THEN Ok("CRITICAL")
       ELSE IF incident_count.t = "null" THEN Raise(NoneCompare)
       ELSE IF incident_count.v > 3 THEN Ok("CRITICAL")
       ELSE IF risk_score.v > 600 \/ incident_count.v > 2 THEN Ok("HIGH")
       ELSE IF risk_score.v > 400 THEN Ok("MEDIUM")
       ELSE Ok("LOW")

\* _suggest_actions that does not look at the flood-zone exposure
suggest_actions_any_zone(record) ==
    LET risk_score == GetT(record.risk_score, Num(0))
        has_backup == Get(record.has_backup, PyTrue)
        flood_proof == Get(record.flood_proof, PyTrue)
        incident_count == GetT(record.incident_count, Num(0))
        actions ==
            (IF risk_score.v > 700 THEN <<"Immediate risk assessment required">> ELSE <<>>)
            \o (IF ~Truthy(has_backup) THEN <<"Install electric backup system">> ELSE <<>>)
            \o (IF ~Truthy(flood_proof)
                THEN <<"Implement flood protection measures">> ELSE <<>>)
            \o (IF incident_count.v > 2
                THEN <<"Investigate recurring incident patterns">> ELSE <<>>)
    IN IF risk_score.t = "null" THEN Raise(NoneCompareFloat)
       ELSE IF incident_count.t = "null" THEN Raise(NoneCompare)
       ELSE IF actions = <<>> THEN Ok(<<"Continue monitoring">>)
       ELSE Ok(actions)

\* GraphRAGPipeline._suggest_actions
suggest_actions(record) ==
    LET risk_score == GetT(record.risk_score, Num(0))
        has_backup == Get(record.has_backup, PyTrue)
        flood_proof == Get(record.flood_proof, PyTrue)
        in_flood_zone == Get(record.in_flood_zone, PyFalse)
        incident_count == GetT(record.incident_count, Num(0))
        actions ==
            (IF risk_score.v > 700 THEN <<"Immediate risk assessment required">> ELSE <<>>)
            \o (IF ~Truthy(has_backup) THEN <<"Install electric backup system">> ELSE <<>>)
            \o (IF ~Truthy(flood_proof) /\ Truthy(in_flood_zone)
                THEN <<"Implement flood protection measures">> ELSE <<>>)
            \o (IF incident_count.v > 2
                THEN <<"Investigate recurring incident patterns">> ELSE <<>>)
    IN IF risk_score.t = "null" THEN Raise(NoneCompareFloat)
       ELSE IF incident_count.t = "null" THEN Raise(NoneCompare)
       ELSE IF actions = <<>> THEN Ok(<<"Continue monitoring">>)
       ELSE Ok(actions)

\* GraphRAGPipeline._generate_warehouse_recommendations
RECURSIVE RecommendEach(_)
RecommendEach(records) ==
    IF records = <<>> THEN Ok(<<>>)
    ELSE LET record == Head(records)
             warehouse_id == Get(record.warehouse_id, Null)
             priority == calculate_priority(record)
             actions == suggest_actions(record)
             rest == RecommendEach(Tail(records))
         IN IF warehouse_id \in {Null, ""}
            THEN rest
            ELSE IF ~priority.ok THEN Raise(priority.exc)
            ELSE IF ~actions.ok THEN Raise(actions.exc)
            ELSE IF ~rest.ok THEN rest
            ELSE Ok(<<[warehouse_id |-> warehouse_id, priority |-> priority.val,
                       actions |-> actions.val]>> \o rest.val)

generate_warehouse_recommendations(results) == RecommendEach(Take(results, 3))

(***************************************************************************)
(* GraphRAGPipeline (scr/pipeline.py)                                      *)
(***************************************************************************)
\* Config.MAX_RESULTS
MAX_RESULTS == 10

\* The questions a caller may ask
Questions ==
    {"Show me the top 5 highest risk warehouses",
     "Compare risk levels across different zones"}

\* Elapsed wall-clock time of a request, in milliseconds
ClockReadings == {4, 1236}

\* round(seconds, 2), in hundredths of a second
Round2(ms) == (ms + 5) \div 10

NoRecommendations == [t |-> "null", v |-> <<>>]

NoUnderstanding ==
    [intent |-> Absent, entities |-> AbsentList, risk_factors |-> AbsentList,
     time_scope |-> Absent, graph_pattern |-> Absent, complexity |-> Absent,
     data_focus |-> AbsentList, output_format |-> Absent, filters |-> AbsentList,
     requires_comparison |-> Absent, requires_aggregation |-> Absent,
     requires_temporal_analysis |-> Absent, requires_geospatial_analysis |-> Absent]

\* A response dictionary: keys is the set of keys it has, a key it does not
\* have holds a placeholder.
NoResponse ==
    [keys |-> {}, success |-> FALSE, error |-> Absent, query |-> Absent,
     answer |-> NullStr, results |-> <<>>, result_count |-> 0,
     context |-> NoContext, understanding |-> NoUnderstanding,
     cypher_query |-> <<>>, recommendations |-> NoRecommendations,
     suggestion |-> Absent,
     metadata |-> [processing_time_seconds |-> 0, results_returned |-> 0,
                   query_complexity |-> Absent, graph_pattern |-> Absent]]

ErrorPrefix == "I encountered an error processing your query: "

\* _error_response that drops the message of the exception
error_response_generic(error_message) ==
    [NoResponse EXCEPT
       !.keys = {"success", "error", "answer", "results", "result_count", "metadata"},
       !.success = FALSE,
       !.error = "Internal error",
       !.answer = PyStr(<<ErrorPrefix, "Internal error">>),
       !.metadata = [processing_time_seconds |-> 0, results_returned |-> 0,
                     query_complexity |-> "error", graph_pattern |-> "error"]]

\* _error_response that returns only the flag and the message
error_response_bare(error_message) ==
    [NoResponse EXCEPT
       !.keys = {"success", "error"},
       !.success = FALSE,
       !.error = error_message]

\* GraphRAGPipeline._error_response
error_response(error_message) ==
    [NoResponse EXCEPT
       !.keys = {"success", "error", "answer", "results", "result_count", "metadata"},
       !.success = FALSE,
       !.error = error_message,
       !.answer = PyStr(<<ErrorPrefix, error_message>>),
       !.results = <<>>,
       !.result_count = 0,
       !.metadata = [processing_time_seconds |-> 0, results_returned |-> 0,
                     query_complexity |-> "error", graph_pattern |-> "error"]]

NoResultsAnswer ==
    "No warehouses match your query criteria. Try broadening your search or adjusting the filters."

\* _no_results_response that reports the empty result as a failure
no_results_response_failing(query, understanding) ==
    [NoResponse EXCEPT
       !.keys = {"success", "query", "answer", "results", "result_count",
                 "understanding", "suggestion", "metadata"},
       !.success = FALSE,
       !.query = query,
       !.answer = PyStr(<<NoResultsAnswer>>),
       !.understanding = understanding,
       !.metadata = [processing_time_seconds |-> 0, results_returned |-> 0,
                     query_complexity |-> Get(understanding.complexity, "unknown"),
                     graph_pattern |-> Get(understanding.graph_pattern, "unknown")]]

\* GraphRAGPipeline._no_results_response
no_results_response(query, understanding) ==
    [NoResponse EXCEPT
       !.keys = {"success", "query", "answer", "results", "result_count",
                 "understanding", "suggestion", "metadata"},
       !.success = TRUE,
       !.query = query,
       !.answer = PyStr(<<NoResultsAnswer>>),
       !.results = <<>>,
       !.result_count = 0,
       !.understanding = understanding,
       !.suggestion = "Try queries like: 'Show all warehouses' or 'List warehouses by zone'",
       !.metadata = [processing_time_seconds |-> 0, results_returned |-> 0,
                     query_complexity |-> Get(understanding.complexity, "unknown"),
                     graph_pattern |-> Get(understanding.graph_pattern, "unknown")]]

\* success_response that reports missing recommendations as an empty list
success_response_defaulting(user_query, answer, results, context, understanding, cypher_query, recommendations, ms) ==
    [NoResponse EXCEPT
       !.keys = {"success", "query", "answer", "results", "result_count", "context",
                 "understanding", "cypher_query", "recommendations", "metadata"},
       !.success = TRUE,
       !.query = user_query,
       !.answer = answer,
       !.results = Take(results, MAX_RESULTS),
       !.result_count = Len(results),
       !.context = context,
       !.understanding = understanding,
       !.cypher_query = cypher_query,
       !.recommendations = IF recommendations.t = "null" THEN PyList(<<>>)
                           ELSE recommendations,
       !.metadata = [processing_time_seconds |-> Round2(ms),
                     results_returned |-> Len(results),
                     query_complexity |-> Get(understanding.complexity, "unknown"),
                     graph_pattern |-> Get(understanding.graph_pattern, "unknown")]]

\* success_response that counts the records it returns
success_response_counting_returned(user_query, answer, results, context, understanding, cypher_query, recommendations, ms) ==
    [NoResponse EXCEPT
       !.keys = {"success", "query", "answer", "results", "result_count", "context",
                 "understanding", "cypher_query", "recommendations", "metadata"},
       !.success = TRUE,
       !.query = user_query,
       !.answer = answer,
       !.results = Take(results, MAX_RESULTS),
       !.result_count = Len(Take(results, MAX_RESULTS)),
       !.context = context,
       !.understanding = understanding,
       !.cypher_query = cypher_query,
       !.recommendations = recommendations,
       !.metadata = [processing_time_seconds |-> Round2(ms),
                     results_returned |-> Len(Take(results, MAX_RESULTS)),
                     query_complexity |-> Get(understanding.complexity, "unknown"),
                     graph_pattern |-> Get(understanding.graph_pattern, "unknown")]]

\* The response dictionary assembled at the end of process_query
success_response(user_query, answer, results, context, understanding, cypher_query, recommendations, ms) ==
    [NoResponse EXCEPT
       !.keys = {"success", "query", "answer", "results", "result_count", "context",
                 "understanding", "cypher_query", "recommendations", "metadata"},
       !.success = TRUE,
       !.query = user_query,
       !.answer = answer,
       !.results = Take(results, MAX_RESULTS),
       !.result_count = Len(results),
       !.context = context,
       !.understanding = understanding,
       !.cypher_query = cypher_query,
       !.recommendations = recommendations,
       !.metadata = [processing_time_seconds |-> Round2(ms),
                     results_returned |-> Len(results),
                     query_complexity |-> Get(understanding.complexity, "unknown"),
                     graph_pattern |-> Get(understanding.graph_pattern, "unknown")]]

\* The value of a call that has not been made
NotCalled == [ok |-> FALSE, val |-> <<>>, exc |-> "<not called>"]
Called(r) == r.exc # "<not called>"
Raised(r) == ~r.ok /\ Called(r)

NoRequest == [user_query |-> Absent, use_templates |-> TRUE,
              generate_recommendations |-> FALSE]

\* The aggregate query of get_warehouse_profile, the peer lookup of
\* _find_similar_warehouses and the aggregate query of compare_warehouses
ProfileQuery == <<"WS", "MATCH", "$warehouse_id", "api:profile", "RETURN", "WS">>
SimilarQuery ==
    <<"WS", "MATCH", "$warehouse_id", "$location_type", "$risk_score", "api:similar",
      "RETURN", "$limit", "WS">>
CompareQuery == <<"WS", "MATCH", "$warehouse_ids", "api:compare", "RETURN", "WS">>

\* Warehouses the store may hold: with or without risk events (the collect of
\* the profile query gives one all-null entry when there are none), with or
\* without an infrastructure node
ProfileRows ==
    {WarehouseData(AbsentNum, Num(ws), PyList(<<risk>>), infra) :
        ws \in {850, 300},
        risk \in {RiskEntry(Null, NullNum), RiskEntry("breakdown", Num(3)),
                  RiskEntry("flood", Num(1))},
        infra \in {NullNode, Node(PyFalse, PyFalse), Node(PyTrue, PyTrue)}}

ProfileLists == {<<>>} \cup {<<r>> : r \in ProfileRows}

SimilarLists ==
    {<<>>, <<[warehouse_id |-> "WH_0007", risk_score |-> Num(800), incident_count |-> Num(2)]>>}

CompareLists ==
    {<<>>,
     <<[warehouse_id |-> "WH_0001", risk_score |-> Num(850), incident_count |-> Num(4),
        has_backup |-> PyFalse, flood_proof |-> PyFalse],
       [warehouse_id |-> "WH_0002", risk_score |-> Num(300), incident_count |-> Num(0),
        has_backup |-> Null, flood_proof |-> Null]>>}

WarehouseIdArgs == {"WH_0001", "WH_9999"}

\* GraphRAGPipeline.get_warehouse_profile: what it returns or raises (ret), the
\* calls of execute_query it made (store) and the calls of the Answer
\* Generator it made (ag)
get_warehouse_profile(warehouse_id, store, similar, llmA, llmR) ==
    LET first == StoreCall(ProfileQuery, {"$warehouse_id"}, <<warehouse_id>>, store)
        results == first.ret
        warehouse_data == results.val[1]
        risk_assessment == generate_risk_assessment(warehouse_data, llmA)
        second == StoreCall(SimilarQuery,
                            {"$warehouse_id", "$location_type", "$risk_score", "$limit"},
                            <<warehouse_data.w.warehouse_id>>, similar)
        similar_warehouses == second.ret
        recommendations == AG_generate_recommendations(warehouse_data, llmR)
        assessed == AnswerGeneratorCall("generate_risk_assessment", llmA, risk_assessment)
        recommended == AnswerGeneratorCall("generate_recommendations", llmR, recommendations)
    IN IF ~results.ok
       THEN [ret |-> Raise(results.exc), store |-> <<first>>, ag |-> <<>>]
       ELSE IF results.val = <<>>
       THEN [ret |-> Ok([kind |-> "error", error |-> <<"Warehouse ", warehouse_id, " not found">>]),
             store |-> <<first>>, ag |-> <<>>]
       ELSE IF ~risk_assessment.ok
       THEN [ret |-> Raise(risk_assessment.exc), store |-> <<first>>, ag |-> <<assessed>>]
       ELSE IF ~similar_warehouses.ok
       THEN [ret |-> Raise(similar_warehouses.exc), store |-> <<first, second>>,
             ag |-> <<assessed>>]
       ELSE IF ~recommendations.ok
       THEN [ret |-> Raise(recommendations.exc), store |-> <<first, second>>,
             ag |-> <<assessed, recommended>>]
       ELSE [ret |-> Ok([kind |-> "profile", warehouse_id |-> warehouse_id,
                         data |-> warehouse_data,
                         risk_assessment |-> risk_assessment.val,
                         recommendations |-> recommendations.val,
                         similar_warehouses |-> Take(similar_warehouses.val, 5)]),
             store |-> <<first, second>>, ag |-> <<assessed, recommended>>]

\* GraphRAGPipeline.compare_warehouses
compare_warehouses(warehouse_ids, store, llm) ==
    LET first == StoreCall(CompareQuery, {"$warehouse_ids"}, warehouse_ids, store)
        warehouses == first.ret
        comparison == generate_comparison(warehouses.val, llm)
        compared == AnswerGeneratorCall("generate_comparison", llm, comparison)
    IN IF ~warehouses.ok
       THEN [ret |-> Raise(warehouses.exc), store |-> <<first>>, ag |-> <<>>]
       ELSE IF warehouses.val = <<>>
       THEN [ret |-> Ok([kind |-> "error", error |-> <<"No warehouses found">>]),
             store |-> <<first>>, ag |-> <<>>]
       ELSE IF ~comparison.ok
       THEN [ret |-> Raise(comparison.exc), store |-> <<first>>, ag |-> <<compared>>]
       ELSE [ret |-> Ok([kind |-> "comparison", warehouses |-> warehouses.val,
                         comparison |-> comparison.val,
                         metrics_compared |->
                           <<"risk_score", "incidents", "infrastructure", "performance">>]),
             store |-> <<first>>, ag |-> <<compared>>]

VARIABLES
    pc,          \* where process_query is: idle, execute, answer, recommend, done
    request,     \* the arguments of process_query
    qg,          \* what QueryGenerator.process_query returned or raised
    exec,        \* what QueryExecutor.execute_with_context returned or raised
    ans,         \* the answer call: what the service did, what generate_answer gave
    recs,        \* what _generate_warehouse_recommendations returned or raised
    response,    \* the dictionary returned to the caller
    storeCalls,  \* the calls of execute_query of this request, in order
    llmCalls,    \* service calls of this request, per component
    agCalls,     \* the calls of the Answer Generator of this request, in order
    api,         \* what get_warehouse_profile or compare_warehouses returned or raised
    ruleInput,   \* the record a local rule is applied to
    ruleOutput,  \* the rule applied and what it returned or raised
    batch        \* batch_process: its queries, the responses so far, its position

vars == <<pc, request, qg, exec, ans, recs, response, storeCalls, llmCalls, agCalls, api,
          ruleInput, ruleOutput, batch>>

\* The variables of the local rules
ruleVars == <<ruleInput, ruleOutput>>

NoAnswer == [llm |-> "none", ret |-> NotCalled]
NoCalls == [understanding |-> 0, cypher |-> 0, answer |-> 0]

\* No rule has been applied
NoRuleInput ==
    [kind |-> "none",
     record |-> Row(Absent, AbsentNum, AbsentNum, AbsentNum, Absent, Absent, Absent, Absent),
     data |-> WarehouseData(AbsentNum, AbsentNum, AbsentList, AbsentNode),
     llm |-> [kind |-> "none", obj |-> GeneralDefault]]
NoRuleOutput == [op |-> "none", ret |-> NotCalled]

\* batch_process has not been called
NoBatch == [state |-> "none", queries |-> <<>>, results |-> <<>>]

\* The pipeline after construction: no request in progress
PipelineIdle ==
    /\ pc = "idle"
    /\ request = NoRequest
    /\ qg = NotCalled
    /\ exec = NotCalled
    /\ ans = NoAnswer
    /\ recs = NotCalled
    /\ response = NoResponse
    /\ storeCalls = <<>>
    /\ llmCalls = NoCalls
    /\ agCalls = <<>>
    /\ api = NotCalled

Init ==
    /\ PipelineIdle
    /\ ruleInput = NoRuleInput
    /\ ruleOutput = NoRuleOutput
    /\ batch = NoBatch

\* process_query, step 1: the call of QueryGenerator.process_query, the check
\* of the text it returned, and the except clause
GenerateQuery ==
    /\ pc = "idle"
    /\ \E user_query \in Questions, use_templates \in BOOLEAN,
          generate_recommendations \in BOOLEAN,
          llmU \in UnderstandOutcomes, llmC \in CypherOutcomes :
         LET r == QG_process_query(llmU, llmC, use_templates)
         IN /\ request' = [user_query |-> user_query, use_templates |-> use_templates,
                           generate_recommendations |-> generate_recommendations]
            /\ qg' = r
            /\ llmCalls' = [llmCalls EXCEPT
                              !.understanding = 1,
                              !.cypher = IF r.ok THEN r.val.cypher_calls
                                         ELSE IF use_templates /\ llmU.kind = "json_object"
                                                 /\ llmU.obj.intent = Unhashable
                                              THEN 0 ELSE 1]
            /\ IF ~r.ok
               THEN response' = error_response(r.exc) /\ pc' = "done"
               ELSE IF r.val.cypher_query = <<>>
               THEN response' = error_response("Failed to generate valid query")
                    /\ pc' = "done"
               ELSE response' = response /\ pc' = "execute"
    /\ UNCHANGED <<exec, ans, recs, storeCalls, agCalls, api>>
    /\ UNCHANGED <<ruleVars, batch>>

\* process_query, step 2: execute_with_context, the no-results return, and
\* the except clause
ExecuteWithContext ==
    /\ pc = "execute"
    /\ LET q == qg.val.cypher_query IN
       \E primary \in StoreOutcomes(q, {}, ResultLists(q)),
          related \in FollowOutcomes(RelatedLists),
          risk \in FollowOutcomes(RiskLists) :
         LET r == execute_with_context(primary, related, risk)
         IN /\ exec' = r
            /\ storeCalls' = ExecCalls(q, primary, related, risk)
            /\ IF ~r.ok
               THEN response' = error_response(r.exc) /\ pc' = "done"
               ELSE IF r.val.results = <<>>
               THEN response' = no_results_response(request.user_query,
                                                    qg.val.understanding)
                    /\ pc' = "done"
               ELSE response' = response /\ pc' = "answer"
    /\ UNCHANGED <<request, qg, ans, recs, llmCalls, agCalls, api>>
    /\ UNCHANGED <<ruleVars, batch>>

\* process_query, step 3: generate_answer, and the except clause
GenerateAnswer ==
    /\ pc = "answer"
    /\ \E llm \in SynthesisOutcomes :
         LET r == generate_answer(exec.val.results, qg.val.understanding, llm)
         IN /\ ans' = [llm |-> llm, ret |-> r]
            /\ agCalls' = <<AnswerGeneratorCall("generate_answer", llm, r)>>
            /\ llmCalls' = [llmCalls EXCEPT
                              !.answer = AnswerCalls(exec.val.results,
                                                     qg.val.understanding)]
            /\ IF ~r.ok
               THEN response' = error_response(r.exc) /\ pc' = "done"
               ELSE response' = response /\ pc' = "recommend"
    /\ UNCHANGED <<request, qg, exec, recs, storeCalls, api>>
    /\ UNCHANGED <<ruleVars, batch>>

\* process_query, steps 4 and 5: the optional recommendations, the assembly
\* of the response, and the except clause
Assemble ==
    /\ pc = "recommend"
    /\ \E ms \in ClockReadings :
         LET understanding == qg.val.understanding
             wanted == /\ request.generate_recommendations
                       /\ Get(understanding.intent, Null) = "risk_identification"
             r == IF wanted
                  THEN generate_warehouse_recommendations(exec.val.results)
                  ELSE NotCalled
         IN /\ recs' = r
            /\ IF Raised(r)
               THEN response' = error_response(r.exc)
               ELSE response' =
                      success_response(request.user_query, ans.ret.val,
                                       exec.val.results, exec.val.context,
                                       understanding, qg.val.cypher_query,
                                       IF wanted THEN PyList(r.val)
                                       ELSE NoRecommendations,
                                       ms)
    /\ pc' = "done"
    /\ UNCHANGED <<request, qg, exec, ans, storeCalls, llmCalls, agCalls, api>>
    /\ UNCHANGED <<ruleVars, batch>>

\* The caller takes the response; the pipeline is ready for the next request
NextRequest ==
    /\ pc = "done"
    /\ pc' = "idle"
    /\ request' = NoRequest
    /\ qg' = NotCalled
    /\ exec' = NotCalled
    /\ ans' = NoAnswer
    /\ recs' = NotCalled
    /\ response' = NoResponse
    /\ storeCalls' = <<>>
    /\ llmCalls' = NoCalls
    /\ agCalls' = <<>>
    /\ api' = NotCalled
    /\ UNCHANGED <<ruleVars, batch>>

\* A call of get_warehouse_profile
GetWarehouseProfile ==
    /\ pc = "idle"
    /\ \E warehouse_id \in WarehouseIdArgs,
          store \in StoreOutcomes(ProfileQuery, {"$warehouse_id"}, ProfileLists),
          similar \in FollowOutcomes(SimilarLists),
          llmA \in SynthesisOutcomes, llmR \in SynthesisOutcomes :
         LET r == get_warehouse_profile(warehouse_id, store, similar, llmA, llmR)
         IN /\ api' = r.ret
            /\ storeCalls' = r.store
            /\ agCalls' = r.ag
            /\ llmCalls' = [llmCalls EXCEPT !.answer = Len(r.ag)]
    /\ pc' = "done"
    /\ UNCHANGED <<request, qg, exec, ans, recs, response>>
    /\ UNCHANGED <<ruleVars, batch>>

\* A call of compare_warehouses
CompareWarehouses ==
    /\ pc = "idle"
    /\ \E warehouse_ids \in {<<"WH_0001", "WH_0002">>, <<"WH_9999">>},
          store \in StoreOutcomes(CompareQuery, {"$warehouse_ids"}, CompareLists),
          llm \in SynthesisOutcomes :
         LET r == compare_warehouses(warehouse_ids, store, llm)
         IN /\ api' = r.ret
            /\ storeCalls' = r.store
            /\ agCalls' = r.ag
            /\ llmCalls' = [llmCalls EXCEPT !.answer = Len(r.ag)]
    /\ pc' = "done"
    /\ UNCHANGED <<request, qg, exec, ans, recs, response>>
    /\ UNCHANGED <<ruleVars, batch>>

Next ==
    \/ GenerateQuery
    \/ ExecuteWithContext
    \/ GenerateAnswer
    \/ Assemble
    \/ GetWarehouseProfile
    \/ CompareWarehouses
    \/ NextRequest

Spec == Init /\ [][Next]_vars

(***************************************************************************)
(* The local rules applied to one record: _calculate_priority and          *)
(* _suggest_actions of the orchestrator, _identify_issues of the Answer    *)
(* Generator                                                               *)
(***************************************************************************)
\* Bound: the number of entries of the risks list of a profile record
MaxRisks == 2

\* risk_score values around the thresholds of the rules (thousandths)
RuleScores ==
    {AbsentNum, NullNum} \cup {Num(n) : n \in {0, 400, 401, 600, 601, 700, 701, 750, 751}}

\* risk_count and incident_count values around the thresholds of the rules
RuleCounts == {AbsentNum, NullNum, Num(0), Num(2), Num(3), Num(4)}

\* A flag column: missing, null, true or false
RuleFlags == {Absent, Null, PyTrue, PyFalse}

\* Result records the recommendation rules may be applied to
RuleRecords ==
    {Row("WH_0001", score, rcount, icount, backup, fproof, fzone, Absent) :
        score \in RuleScores, rcount \in RuleCounts, icount \in RuleCounts,
        backup \in RuleFlags, fproof \in RuleFlags, fzone \in RuleFlags}

\* Entries of the risks list: the all-null entry of a warehouse without risk
\* events, and entries with a count around the threshold
RuleRiskEntries ==
    {RiskEntry(Null, NullNum)}
    \cup {RiskEntry(type, count) :
            type \in {"breakdown", "flood"}, count \in {AbsentNum, Num(2), Num(3)}}

\* Profile records the issue-detection rule may be applied to
RuleData ==
    {WarehouseData(score, Num(850), risks, infra) :
        score \in {AbsentNum, NullNum, Num(700), Num(710)},
        risks \in {AbsentList, NullList}
                  \cup {PyList(l) : l \in SeqsUpTo(RuleRiskEntries, MaxRisks)},
        infra \in {AbsentNode, NullNode}
                  \cup {Node(b, f) : b \in RuleFlags, f \in RuleFlags}}

RulesInit ==
    /\ PipelineIdle
    /\ batch = NoBatch
    /\ ruleOutput = NoRuleOutput
    /\ \/ \E r \in RuleRecords :
            ruleInput = [NoRuleInput EXCEPT !.kind = "record", !.record = r]
       \/ \E d \in RuleData :
            ruleInput = [NoRuleInput EXCEPT !.kind = "data", !.data = d]

\* _calculate_priority applied to the record
CalculatePriority ==
    /\ ruleInput.kind = "record"
    /\ ruleOutput.op = "none"
    /\ ruleOutput' = [op |-> "calculate_priority",
                      ret |-> calculate_priority(ruleInput.record)]
    /\ UNCHANGED <<pc, request, qg, exec, ans, recs, response, storeCalls, llmCalls,
                   agCalls, api, ruleInput, batch>>

\* _suggest_actions applied to the record
SuggestActions ==
    /\ ruleInput.kind = "record"
    /\ ruleOutput.op = "none"
    /\ ruleOutput' = [op |-> "suggest_actions",
                      ret |-> suggest_actions(ruleInput.record)]
    /\ UNCHANGED <<pc, request, qg, exec, ans, recs, response, storeCalls, llmCalls,
                   agCalls, api, ruleInput, batch>>

\* _identify_issues applied to the profile record
IdentifyIssues ==
    /\ ruleInput.kind = "data"
    /\ ruleOutput.op = "none"
    /\ ruleOutput' = [op |-> "identify_issues",
                      ret |-> identify_issues(ruleInput.data)]
    /\ UNCHANGED <<pc, request, qg, exec, ans, recs, response, storeCalls, llmCalls,
                   agCalls, api, ruleInput, batch>>

RulesNext ==
    \/ CalculatePriority
    \/ SuggestActions
    \/ IdentifyIssues

RulesSpec == RulesInit /\ [][RulesNext]_vars

(***************************************************************************)
(* QueryGenerator.understand_query called on its own: one question, one    *)
(* reply of the text-generation service                                    *)
(***************************************************************************)
UnderstandInit ==
    /\ PipelineIdle
    /\ batch = NoBatch
    /\ ruleOutput = NoRuleOutput
    /\ \E llm \in UnderstandOutcomes :
         ruleInput = [NoRuleInput EXCEPT !.kind = "reply", !.llm = llm]

\* understand_query: the prompt is formatted, the service is called once
\* inside the try block, and the function returns from the try block or from
\* one of its two except clauses
UnderstandQuery ==
    /\ ruleInput.kind = "reply"
    /\ ruleOutput.op = "none"
    /\ \E query \in Questions :
         request' = [request EXCEPT !.user_query = query]
    /\ llmCalls' = [llmCalls EXCEPT !.understanding = @ + 1]
    /\ ruleOutput' = [op |-> "understand_query",
                      ret |-> Ok(understand_query(ruleInput.llm))]
    /\ UNCHANGED <<pc, qg, exec, ans, recs, response, storeCalls, agCalls, api,
                   ruleInput, batch>>

UnderstandSpec == UnderstandInit /\ [][UnderstandQuery]_vars

(***************************************************************************)
(* QueryExecutor.execute_with_context called on its own with the           *)
(* breakdown_patterns template, which returns one record per warehouse and *)
(* breakdown event, so a warehouse may fill several records                *)
(***************************************************************************)
\* Bound: the number of records the primary query returns
MaxPrimary == 6

\* A record of the i-th warehouse
ContextRow(i) ==
    Row("WH_" \o ToString(i), AbsentNum, AbsentNum, AbsentNum, PyTrue, Absent, Absent,
        Absent)

\* A record of a query that returns no warehouse_id column
ZoneRow == Row(Absent, AbsentNum, AbsentNum, AbsentNum, Absent, Absent, Absent, "North")

\* Record lists of the primary query: the records of one warehouse follow
\* each other, or no record has the warehouse_id column
ContextLists ==
    {rs \in UNION {[1..n -> 1..n] : n \in 0..MaxPrimary} :
        /\ Len(rs) > 0 => rs[1] = 1
        /\ \A i \in 1..(Len(rs) - 1) : rs[i + 1] \in {rs[i], rs[i] + 1}}

ContextPrimaries ==
    {[raised |-> TRUE, rows |-> <<>>]}
    \cup {[raised |-> FALSE, rows |-> [i \in 1..Len(rs) |-> ContextRow(rs[i])]] :
            rs \in ContextLists}
    \cup {[raised |-> FALSE, rows |-> [i \in 1..n |-> ZoneRow]] : n \in 1..MaxPrimary}

\* execute_with_context(cypher_query) with the text of the template
ExecuteWithContextAlone ==
    /\ pc = "idle"
    /\ exec = NotCalled
    /\ \E primary \in ContextPrimaries, related \in FollowOutcomes(RelatedLists),
          risk \in FollowOutcomes(RiskLists) :
         /\ exec' = execute_with_context(primary, related, risk)
         /\ storeCalls' = ExecCalls(templates["breakdown_patterns"], primary, related, risk)
    /\ UNCHANGED <<pc, request, qg, ans, recs, response, llmCalls, agCalls, api,
                   ruleVars, batch>>

ContextSpec == Init /\ [][ExecuteWithContextAlone]_vars

(***************************************************************************)
(* Requests whose primary query returns many records: process_query after  *)
(* its first three steps, on a store that holds up to MaxMany records for  *)
(* a generated query                                                       *)
(***************************************************************************)
\* Bound: the number of records of the store
MaxMany == 12

\* The i-th record of the store, by descending risk_score
ManyRow(i) ==
    Row("WH_" \o ToString(i), Num(990 - 10 * i), AbsentNum, Num(i % 3), Absent, Absent,
        Absent, Absent)

ManyRows(n) == [i \in 1..n |-> ManyRow(i)]

\* The text a healthy query-generation call returns
ReadQuery == <<"FENCE_CYPHER", "WS", "MATCH", "gen:read", "RETURN", "WS", "FENCE">>

ManyInit ==
    \E n \in 1..MaxMany, user_query \in Questions, generate_recommendations \in BOOLEAN,
       intent \in {"risk_identification", "general_lookup"},
       related \in FollowOutcomes(RelatedLists), llm \in SynthesisOutcomes :
      LET llmU == [kind |-> "json_object",
                   obj |-> ServiceObject(intent, PyList(<<>>), "full")]
          llmC == [kind |-> "text", text |-> ReadQuery]
          generated == QG_process_query(llmU, llmC, TRUE)
          primary == [raised |-> FALSE, rows |-> ManyRows(n)]
          risk == [raised |-> FALSE, rows |-> <<>>]
          executed == execute_with_context(primary, related, risk)
          answer == generate_answer(executed.val.results, generated.val.understanding, llm)
      IN /\ pc = "recommend"
         /\ request = [user_query |-> user_query, use_templates |-> TRUE,
                       generate_recommendations |-> generate_recommendations]
         /\ qg = generated
         /\ exec = executed
         /\ ans = [llm |-> llm, ret |-> answer]
         /\ recs = NotCalled
         /\ response = NoResponse
         /\ storeCalls = ExecCalls(generated.val.cypher_query, primary, related, risk)
         /\ llmCalls = [understanding |-> 1, cypher |-> generated.val.cypher_calls,
                        answer |-> AnswerCalls(executed.val.results,
                                               generated.val.understanding)]
         /\ agCalls = <<AnswerGeneratorCall("generate_answer", llm, answer)>>
         /\ api = NotCalled
         /\ ruleInput = NoRuleInput
         /\ ruleOutput = NoRuleOutput
         /\ batch = NoBatch

ManySpec == ManyInit /\ [][Assemble]_vars

(***************************************************************************)
(* batch_process (scr/pipeline.py)                                         *)
(***************************************************************************)
\* Bound: the number of queries of a batch
MaxBatch == 2

\* GraphRAGPipeline.process_query as one call: the response it returns when
\* the service and the store behave as env says
process_query(user_query, use_templates, generate_recommendations, env) ==
    LET generated == QG_process_query(env.llmU, env.llmC, use_templates)
        understanding == generated.val.understanding
        executed == execute_with_context(env.primary, env.related, env.risk)
        results == executed.val.results
        answer == generate_answer(results, understanding, env.llmA)
        wanted == /\ generate_recommendations
                  /\ Get(understanding.intent, Null) = "risk_identification"
        recommendations == IF wanted THEN generate_warehouse_recommendations(results)
                           ELSE NotCalled
    IN IF ~generated.ok THEN error_response(generated.exc)
       ELSE IF generated.val.cypher_query = <<>>
       THEN error_response("Failed to generate valid query")
       ELSE IF ~executed.ok THEN error_response(executed.exc)
       ELSE IF results = <<>> THEN no_results_response(user_query, understanding)
       ELSE IF ~answer.ok THEN error_response(answer.exc)
       ELSE IF Raised(recommendations) THEN error_response(recommendations.exc)
       ELSE success_response(user_query, answer.val, results, executed.val.context,
                             understanding, generated.val.cypher_query,
                             IF wanted THEN PyList(recommendations.val)
                             ELSE NoRecommendations,
                             env.ms)

\* What the service and the store may do during one query of a batch: the
\* understanding is healthy or has a null entities list, the query-generation
\* call is healthy or fails, the store raises or returns one record, the
\* answer call is healthy or fails.
BatchEnvs ==
    {[llmU |-> [kind |-> "json_object", obj |-> obj],
      llmC |-> c, primary |-> primary,
      related |-> [raised |-> FALSE, rows |-> <<>>],
      risk |-> [raised |-> FALSE, rows |-> <<>>],
      llmA |-> a, ms |-> 1236] :
        obj \in {ServiceObject("general_lookup", PyList(<<>>), "full"),
                 ServiceObject("general_lookup", NullList, "nulls")},
        c \in {[kind |-> "text", text |-> ReadQuery], [kind |-> "call_fails", text |-> <<>>]},
        primary \in {[raised |-> TRUE, rows |-> <<>>],
                     [raised |-> FALSE,
                      rows |-> <<Row("WH_0004", Num(300), AbsentNum, Num(3), Absent, Absent,
                                     Absent, Absent)>>]},
        a \in {"text", "call_fails"}}

\* The store can behave as env says for the query text that env's service
\* answers lead to
EnvFits(env, use_templates) ==
    LET generated == QG_process_query(env.llmU, env.llmC, use_templates)
        q == generated.val.cypher_query
    IN (generated.ok /\ q # <<>>) => env.primary \in StoreOutcomes(q, {}, ResultLists(q))

BatchInit ==
    /\ PipelineIdle
    /\ ruleInput = NoRuleInput
    /\ ruleOutput = NoRuleOutput
    /\ \E queries \in SeqsUpTo(Questions, MaxBatch) :
         batch = [state |-> "running", queries |-> queries, results |-> <<>>]

\* batch_process that gives up at the first response that is not a success
BatchReturn_at_first_failure ==
    /\ batch.state = "running"
    /\ \/ Len(batch.results) = Len(batch.queries)
       \/ /\ batch.results # <<>>
          /\ batch.results[Len(batch.results)].success = FALSE
    /\ batch' = [batch EXCEPT !.state = "returned"]
    /\ UNCHANGED <<pc, request, qg, exec, ans, recs, response, storeCalls, llmCalls,
                   agCalls, api, ruleVars>>

\* One turn of the loop of batch_process: process_query(query) with its
\* default arguments, and the append of its response
BatchProcessQuery ==
    /\ batch.state = "running"
    /\ Len(batch.results) < Len(batch.queries)
    /\ \E env \in {e \in BatchEnvs : EnvFits(e, TRUE)} :
         LET query == batch.queries[Len(batch.results) + 1]
             result == process_query(query, TRUE, FALSE, env)
         IN batch' = [batch EXCEPT !.results = Append(@, result)]
    /\ UNCHANGED <<pc, request, qg, exec, ans, recs, response, storeCalls, llmCalls,
                   agCalls, api, ruleVars>>

\* The loop is over: batch_process returns its list
BatchReturn ==
    /\ batch.state = "running"
    /\ Len(batch.results) = Len(batch.queries)
    /\ batch' = [batch EXCEPT !.state = "returned"]
    /\ UNCHANGED <<pc, request, qg, exec, ans, recs, response, storeCalls, llmCalls,
                   agCalls, api, ruleVars>>

BatchNext ==
    \/ BatchProcessQuery
    \/ BatchReturn

BatchSpec == BatchInit /\ [][BatchNext]_vars

(***************************************************************************)
(* Properties                                                              *)
(***************************************************************************)
\* The response is the error response carrying the message msg
IsErrorResponse(resp, msg) ==
    /\ resp.success = FALSE
    /\ resp.error = msg
    /\ resp.answer.t = "str" /\ Contains(resp.answer.v, msg)
    /\ resp.results = <<>>
    /\ resp.result_count = 0

RaiseIsReported(r) == Raised(r) => pc = "done" /\ IsErrorResponse(response, r.exc)

\* C1: process_query never raises to its caller: when query generation,
\* execute_with_context, answer generation or the derivation of the
\* recommendations raises, the request is finished and the caller holds the
\* error response: success false, the message of the exception in error and
\* in the answer, no results and result_count 0.
C1_ExceptionsBecomeErrorResponse ==
    /\ RaiseIsReported(qg)
    /\ RaiseIsReported(exec)
    /\ RaiseIsReported(ans.ret)
    /\ RaiseIsReported(recs)

\* A request whose recommendation step raised and that ended in the error state
C1_Witness ==
    /\ pc = "done"
    /\ Raised(recs)
    /\ response.success = FALSE

\* C2: QueryGenerator.process_query does not raise and returns a non-empty
\* query text whatever the text-generation service does, so that no request
\* ends in the error state because of query generation.
C2_QueryGenerationNeverFails ==
    Called(qg) =>
        /\ qg.ok
        /\ qg.val.cypher_query # <<>>
        /\ (pc = "done" /\ response.success = FALSE)
              => (Raised(exec) \/ Raised(ans.ret) \/ Raised(recs))

IsStr(x) == x \notin {Absent, Null, Unhashable}
IsList(x) == x.t = "list"
IsBool(x) == x \in {PyTrue, PyFalse}

\* Every documented field of the Understanding is there with its type
WellFormedUnderstanding(u) ==
    /\ IsStr(u.intent)
    /\ IsList(u.entities)
    /\ IsList(u.risk_factors)
    /\ IsStr(u.time_scope)
    /\ IsStr(u.graph_pattern)
    /\ IsStr(u.complexity)
    /\ IsList(u.data_focus)
    /\ IsStr(u.output_format)
    /\ IsList(u.filters)
    /\ IsBool(u.requires_comparison)
    /\ IsBool(u.requires_aggregation)
    /\ IsBool(u.requires_temporal_analysis)
    /\ IsBool(u.requires_geospatial_analysis)

\* C3: the Understanding returned by QueryGenerator.process_query has every
\* documented field, each with a value of the documented type, whatever the
\* service returned.
C3_UnderstandingComplete ==
    qg.ok => WellFormedUnderstanding(qg.val.understanding)

\* The text starts with MATCH, CREATE or MERGE and has a RETURN clause
LeadingKeywordAndReturn(q) ==
    /\ StartsWith(Upper(q), {"MATCH", "CREATE", "MERGE"})
    /\ Contains(Upper(q), "RETURN")

\* C4: every query text that process_query hands to execute_with_context
\* starts with MATCH, CREATE or MERGE, has a RETURN clause, and is accepted by
\* the validator.
C4_OnlyValidatedTextReachesExecutor ==
    (Called(qg) /\ storeCalls # <<>>) =>
        /\ LeadingKeywordAndReturn(storeCalls[1].query)
        /\ validate_cypher_syntax(storeCalls[1].query)

\* C5: the text returned by _generate_fallback_query, as returned, is accepted
\* by _validate_cypher_syntax.
C5_FallbackPassesValidation ==
    (qg.ok /\ qg.val.tier = "fallback") => validate_cypher_syntax(qg.val.cypher_query)

\* The high-risk template as process_query returns it
HighRiskTemplate == Strip(templates["high_risk_warehouses"])

\* C6: with templates enabled and recommendations asked for, a question
\* understood as risk identification is served by the high-risk template
\* without a query-generation call, the Executor runs exactly that text, and a
\* response with results has recommendations.
C6_RiskQuestionServedByHighRiskTemplate ==
    ( /\ Called(qg)
      /\ request.use_templates
      /\ request.generate_recommendations
      /\ qg.ok
      /\ qg.val.understanding.intent = "risk_identification" )
    =>
        /\ qg.val.tier = "template"
        /\ qg.val.cypher_query = HighRiskTemplate
        /\ llmCalls.cypher = 0
        /\ (storeCalls # <<>> => storeCalls[1].query = HighRiskTemplate)
        /\ ((pc = "done" /\ response.success /\ response.results # <<>>)
               => response.recommendations.t # "null")

\* C7: execute_query fails closed: when the store raises it returns an empty
\* sequence and nothing reaches the caller, otherwise it returns the records
\* of the store in the order of the store.
C7_ExecuteQueryFailsClosed ==
    /\ \A i \in 1..Len(storeCalls) :
          LET c == storeCalls[i] IN
          /\ c.ret.ok
          /\ c.store.raised => c.ret.val = <<>>
          /\ ~c.store.raised => c.ret.val = c.store.rows
    /\ (Called(qg) /\ storeCalls # <<>> /\ storeCalls[1].store.raised) => exec.ok

\* The store raised on the primary query of a finished request
C7_Witness ==
    /\ pc = "done"
    /\ Called(qg)
    /\ storeCalls # <<>>
    /\ storeCalls[1].store.raised
    /\ storeCalls[1].ret.val = <<>>

\* The store gave no record for the primary query (it raised, or it returned
\* an empty sequence)
PrimaryEmpty ==
    /\ Called(qg)
    /\ storeCalls # <<>>
    /\ storeCalls[1].store.raised \/ storeCalls[1].store.rows = <<>>

\* C8: whenever the primary query yields no record, the store failing
\* included, the request ends in the no-results state: success, the fixed
\* guidance answer, no results, result_count 0, processing time 0.0 and the
\* Understanding, and neither an answer-generation call nor a derivation of
\* recommendations was made.
C8_EmptyPrimaryEndsInNoResults ==
    PrimaryEmpty =>
        /\ pc = "done"
        /\ response.success = TRUE
        /\ response.answer = PyStr(<<NoResultsAnswer>>)
        /\ response.results = <<>>
        /\ response.result_count = 0
        /\ response.metadata.processing_time_seconds = 0
        /\ "understanding" \in response.keys
        /\ response.understanding = qg.val.understanding
        /\ llmCalls.answer = 0
        /\ ~Called(ans.ret)
        /\ ~Called(recs)

\* A request that ended in the no-results state because the store raised
C8_Witness ==
    /\ pc = "done"
    /\ PrimaryEmpty
    /\ storeCalls[1].store.raised
    /\ response.success = TRUE
    /\ "suggestion" \in response.keys

\* C9: when the answer call of the service fails and the primary query gave
\* at least one record, the request ends in the success state, with the
\* results and the count of a healthy answer and the fixed answer string.
C9_AnswerFailureIsStillSuccess ==
    (pc = "done" /\ ans.llm = "call_fails") =>
        /\ response.success = TRUE
        /\ response.answer = PyStr(<<AnswerError>>)
        /\ response.results = Take(exec.val.results, MAX_RESULTS)
        /\ response.result_count = Len(exec.val.results)

\* The fixed error string of each operation of the Answer Generator
FixedError(op) ==
    CASE op = "generate_answer" -> AnswerError
      [] op = "generate_risk_assessment" -> AssessmentError
      [] op = "generate_recommendations" -> RecommendationsError
      [] OTHER -> ComparisonError

\* C10: generate_answer, generate_risk_assessment, generate_recommendations and
\* generate_comparison each return a string and never raise, whatever the
\* service does and whatever the input record holds (null or missing
\* infrastructure, risk_score or risk-event count included); when the service
\* call fails the value is the fixed error string of the operation.
C10_SynthesisFailsSoft ==
    \A i \in 1..Len(agCalls) :
        LET c == agCalls[i] IN
        /\ c.ret.ok
        /\ c.ret.val.t = "str"
        /\ c.llm = "call_fails" => c.ret.val = PyStr(<<FixedError(c.op)>>)

\* The request ended in the success state: the primary query gave records and
\* every step after it returned
InSuccessState ==
    /\ pc = "done"
    /\ Called(qg)
    /\ response.success = TRUE
    /\ response.results # <<>>

\* C11: in every success response, recommendations is not null exactly when
\* the caller asked for recommendations and the intent of the Understanding
\* is 'risk_identification'; for every other intent it is null, also when
\* the results are high-risk warehouses.
C11_RecommendationsGatedOnIntent ==
    InSuccessState =>
        /\ "recommendations" \in response.keys
        /\ response.recommendations.t # "null"
              <=> ( /\ request.generate_recommendations
                    /\ qg.val.understanding.intent = "risk_identification" )
        /\ response.recommendations.t = "null" <=> ~Called(recs)

\* A success response with a derived recommendation
C11_Witness ==
    /\ InSuccessState
    /\ request.generate_recommendations
    /\ response.recommendations.t = "list"
    /\ response.recommendations.v # <<>>

\* The number a rule reads from a slot that holds a number; a missing key is 0
Value(x) == IF x.t = "num" THEN x.v ELSE 0

\* The priority rule as stated: strict comparisons, risk_score in thousandths
PriorityRule(risk_score, incident_count) ==
    IF risk_score > 750 \/ incident_count > 3 THEN "CRITICAL"
    ELSE IF risk_score > 600 \/ incident_count > 2 THEN "HIGH"
    ELSE IF risk_score > 400 THEN "MEDIUM"
    ELSE "LOW"

PriorityApplied == ruleOutput.op = "calculate_priority" /\ ruleOutput.ret.ok

CountRead(record) ==
    IF record.risk_count.t = "num" /\ record.risk_count.v # 0
    THEN record.risk_count
    ELSE record.incident_count

AssessClause(record) == Value(record.risk_score) > 700
BackupClause(record) == record.has_backup \in {PyFalse, Null}
FloodClause(record) ==
    record.flood_proof \in {PyFalse, Null} /\ record.in_flood_zone = PyTrue
IncidentsClause(record) == Value(record.incident_count) > 2

NoClause(record) ==
    ~(AssessClause(record) \/ BackupClause(record) \/ FloodClause(record)
        \/ IncidentsClause(record))

\* The actions of the clauses that apply, in the stated order
ClauseActions(record) ==
    (IF AssessClause(record) THEN <<"Immediate risk assessment required">> ELSE <<>>)
    \o (IF BackupClause(record) THEN <<"Install electric backup system">> ELSE <<>>)
    \o (IF FloodClause(record) THEN <<"Implement flood protection measures">> ELSE <<>>)
    \o (IF IncidentsClause(record)
        THEN <<"Investigate recurring incident patterns">> ELSE <<>>)

ActionsApplied == ruleOutput.op = "suggest_actions" /\ ruleOutput.ret.ok

RECURSIVE RecurringTypes(_)
RecurringTypes(risks) ==
    IF risks = <<>> THEN <<>>
    ELSE (IF Value(Head(risks).count) > 2 THEN <<Head(risks).type>> ELSE <<>>)
         \o RecurringTypes(Tail(risks))

NoBackup(infra) == infra.has_electric_backup \notin {PyTrue}
NotFloodProof(infra) == infra.is_flood_proof \notin {PyTrue}

ExpectedSeverities(data) ==
    (IF Value(data.risk_score) > 700 THEN <<"critical">> ELSE <<>>)
    \o (IF NoBackup(data.infrastructure) THEN <<"high">> ELSE <<>>)
    \o (IF NotFloodProof(data.infrastructure) THEN <<"medium">> ELSE <<>>)
    \o [i \in 1..Len(RecurringTypes(data.risks.v)) |-> "high"]

IssuesApplied == ruleOutput.op = "identify_issues" /\ ruleOutput.ret.ok

Min(a, b) == IF a < b THEN a ELSE b

\* C15: in every success response, results is the first min(n, MAX_RESULTS)
\* records of the n records the Executor returned, in the same order, while
\* result_count and metadata.results_returned are both n.
C15_ResultsTruncatedCountsNot ==
    InSuccessState =>
        LET all == exec.val.results
            n == Len(all)
        IN /\ Len(response.results) = Min(n, MAX_RESULTS)
           /\ \A i \in 1..Len(response.results) : response.results[i] = all[i]
           /\ response.result_count = n
           /\ response.metadata.results_returned = n

\* A success response for a result of more than MAX_RESULTS records
C15_Witness ==
    /\ InSuccessState
    /\ Len(exec.val.results) > MAX_RESULTS
    /\ Len(response.results) = MAX_RESULTS
    /\ response.result_count > MAX_RESULTS

\* Response i of the batch answers query i: the responses that carry the
\* question carry that one
AnswersQuery(resp, query) == "query" \in resp.keys => resp.query = query

\* C16: batch_process on N queries returns exactly N responses, the i-th
\* being the response to the i-th query; the queries are processed one after
\* another, a response once appended is never changed by a later query, and a
\* response in the error or no-results state does not stop the batch.
C16_BatchReturnsOneResponsePerQuery ==
    /\ [](/\ Len(batch.results) <= Len(batch.queries)
          /\ \A i \in 1..Len(batch.results) :
                AnswersQuery(batch.results[i], batch.queries[i])
          /\ batch.state = "returned" => Len(batch.results) = Len(batch.queries))
    /\ [][/\ Len(batch.results') <= Len(batch.results) + 1
          /\ \A i \in 1..Len(batch.results) : batch.results'[i] = batch.results[i]]_vars

\* A returned batch whose first query ended in the error state and whose
\* second query ended in the success state
C16_Witness ==
    /\ batch.state = "returned"
    /\ Len(batch.queries) = 2
    /\ batch.results[1].success = FALSE
    /\ batch.results[2].success = TRUE
    /\ batch.results[2].results # <<>>
    /\ batch.results[2].query = batch.queries[2]

\* Query generation was asked to use templates and understood an intent that
\* is a key of the template library
TemplateIntent ==
    /\ Called(qg)
    /\ qg.ok
    /\ request.use_templates
    /\ qg.val.understanding.intent \in TemplateKeys

\* C17: with templates enabled, when the intent of the Understanding is a key
\* of the template library, QueryGenerator.process_query returns the text of
\* that template, which depends on the intent alone (not on the question, the
\* entities or the other fields of the Understanding), and makes no
\* query-generation service call.
C17_TemplateServedForTemplateIntent ==
    TemplateIntent =>
        /\ qg.val.tier = "template"
        /\ qg.val.cypher_query = Strip(templates[qg.val.understanding.intent])
        /\ qg.val.cypher_calls = 0
        /\ llmCalls.cypher = 0

\* The profile template served for an Understanding with entities
C17_Witness ==
    /\ TemplateIntent
    /\ qg.val.understanding.intent = "warehouse_risk_profile"
    /\ qg.val.understanding.entities = PyList(<<"zone", "WH_0042">>)
    /\ qg.val.tier = "template"

\* The three terminal states of a request, told from what its steps did
ErrorState ==
    \/ Raised(qg)
    \/ qg.ok /\ qg.val.cypher_query = <<>>
    \/ Raised(exec)
    \/ Raised(ans.ret)
    \/ Raised(recs)
NoResultsState == exec.ok /\ exec.val.results = <<>>

RequiredKeys == {"success", "answer", "results", "result_count", "metadata"}

\* C18: the response of process_query, in each of its three terminal states,
\* has success, answer, results, result_count and a metadata block with
\* processing_time_seconds, results_returned, query_complexity and
\* graph_pattern; success is false exactly in the error state; results is
\* empty and result_count is 0 in the error and no-results states.
C18_ResponseWellFormed ==
    (pc = "done" /\ Called(qg)) =>
        /\ RequiredKeys \subseteq response.keys
        /\ response.metadata.processing_time_seconds >= 0
        /\ response.metadata.results_returned = response.result_count
        /\ response.metadata.query_complexity # Absent
        /\ response.metadata.graph_pattern # Absent
        /\ response.success = FALSE <=> ErrorState
        /\ (ErrorState \/ NoResultsState)
              => (response.results = <<>> /\ response.result_count = 0)
        /\ ~(ErrorState \/ NoResultsState) => response.results # <<>>

\* A request that ended in the error state because the Executor raised
C18_Witness ==
    /\ pc = "done"
    /\ Raised(exec)
    /\ RequiredKeys \subseteq response.keys
    /\ response.metadata.query_complexity = "error"

\* The text has a clause that writes to the graph
IsWritingQuery(q) ==
    \E i \in 1..Len(q) : Upper(q)[i] \in {"CREATE", "MERGE", "SET", "DELETE"}

\* C19: the core only reads the graph: no query text submitted to the graph
\* store by process_query, get_warehouse_profile or compare_warehouses
\* creates, merges, sets or deletes graph data, whatever text the
\* text-generation service returns.
C19_OnlyReadingQueriesSubmitted ==
    \A i \in 1..Len(storeCalls) : ~IsWritingQuery(storeCalls[i].query)

\* The aggregate query of the call gave no record (the store raised, or it
\* found nothing)
AggregateEmpty == storeCalls # <<>> /\ storeCalls[1].ret.val = <<>>

\* C20: get_warehouse_profile and compare_warehouses never raise to their
\* caller: for every behaviour of the store and of the service and every shape
\* of the stored warehouse record they return the profile or the comparison,
\* or an error record when the aggregate query gave nothing.
C20_ApiCallsNeverRaise ==
    Called(api) =>
        /\ api.ok
        /\ api.val.kind \in {"profile", "comparison", "error"}
        /\ api.val.kind = "error" <=> AggregateEmpty

(***************************************************************************)
(* C21                                                                     *)
(***************************************************************************)
\* Every default record has the four flags false and the three lists empty
BlankUnderstanding(u) ==
    /\ u.entities = PyList(<<>>)
    /\ u.risk_factors = PyList(<<>>)
    /\ u.filters = PyList(<<>>)
    /\ u.requires_comparison = PyFalse
    /\ u.requires_aggregation = PyFalse
    /\ u.requires_temporal_analysis = PyFalse
    /\ u.requires_geospatial_analysis = PyFalse

\* The replies on which understand_query fails after the text was parsed or
\* before there was a text to parse
OtherFailure(llm) == llm.kind \in {"call_fails", "null_content", "json_non_object"}

UnderstandReturned == ruleOutput.op = "understand_query"

\* C21: understand_query never raises and calls the text-generation service
\* exactly once: on a reply that is not parseable as JSON it returns the
\* default record with intent "general_query", on any other failure the
\* default record with intent "error", both with the four flags false and
\* empty entities, risk_factors and filters.
C21_UnderstandQueryFailsSoftWithOneCall ==
    UnderstandReturned =>
        /\ ruleOutput.ret.ok
        /\ llmCalls.understanding = 1
        /\ ruleInput.llm.kind = "not_json" =>
              /\ ruleOutput.ret.val.intent = "general_query"
              /\ BlankUnderstanding(ruleOutput.ret.val)
        /\ OtherFailure(ruleInput.llm) =>
              /\ ruleOutput.ret.val.intent = "error"
              /\ BlankUnderstanding(ruleOutput.ret.val)

\* understand_query has returned after the service call itself failed
C21_Witness ==
    /\ UnderstandReturned
    /\ ruleInput.llm.kind = "call_fails"
    /\ ruleOutput.ret.val.intent = "error"

(***************************************************************************)
(* C22                                                                     *)
(***************************************************************************)
\* The values of a list, each kept at its first occurrence
RECURSIVE Distinct(_)
Distinct(s) ==
    IF s = <<>> THEN <<>>
    ELSE LET front == Distinct(SubSeq(s, 1, Len(s) - 1))
         IN IF \E i \in 1..Len(front) : front[i] = s[Len(s)]
            THEN front ELSE Append(front, s[Len(s)])

Elements(s) == {s[i] : i \in 1..Len(s)}

\* The follow-up calls in the log of one execute_with_context
FollowUps == SubSeq(storeCalls, 2, Len(storeCalls))

\* C22: execute_with_context issues the two follow-up queries exactly when
\* some primary record carries a warehouse identifier, each follow-up is
\* given at most 5 identifiers, which are the first 5 distinct identifiers of
\* the result in result order, and an empty primary result issues no
\* follow-up and returns {results: [], context: {}, summary: "No results found"}.
C22_FollowUpsGetFirstFiveDistinctIds ==
    (Called(exec) /\ ~Called(qg)) =>
        LET rows == storeCalls[1].ret.val
            ids == WarehouseIds(rows)
        IN /\ (ids # <<>>) <=> (Len(FollowUps) = 2)
           /\ ids = <<>> => FollowUps = <<>>
           /\ Len(FollowUps) = 2 =>
                 /\ FollowUps[1].query = RelatedQuery
                 /\ FollowUps[2].query = RiskQuery
           /\ \A i \in 1..Len(FollowUps) :
                 /\ Len(FollowUps[i].ids) <= 5
                 /\ Elements(FollowUps[i].ids) = Elements(Take(Distinct(ids), 5))
           /\ rows = <<>> =>
                 /\ Len(storeCalls) = 1
                 /\ exec = Ok([results |-> <<>>, context |-> NoContext,
                               summary |-> [kind |-> "No results found", count |-> 0,
                                            total |-> 0]])

(***************************************************************************)
(* C23                                                                     *)
(***************************************************************************)
\* A follow-up call whose query failed or returned nothing
CameBackEmpty(call) == call.store.raised \/ call.store.rows = <<>>

\* C23: when a follow-up query of execute_with_context fails or returns
\* nothing, execute_with_context still returns every primary record in the
\* original order together with the summary, the context entry of that
\* follow-up is empty, and the request ends neither in the error state nor in
\* the no-results state on that account.
C23_FollowUpFailureKeepsPrimaryRecords ==
    (Called(qg) /\ Called(exec) /\ Len(storeCalls) = 3
        /\ (CameBackEmpty(storeCalls[2]) \/ CameBackEmpty(storeCalls[3]))) =>
        /\ exec.ok
        /\ exec.val.results = storeCalls[1].store.rows
        /\ exec.val.summary = generate_results_summary(storeCalls[1].store.rows).val
        /\ exec.val.context.keys = {"related_entities", "risk_summary"}
        /\ CameBackEmpty(storeCalls[2]) => exec.val.context.related_entities = <<>>
        /\ CameBackEmpty(storeCalls[3]) => exec.val.context.risk_summary = <<>>
        /\ ~Called(ans.ret) => pc = "answer"

(***************************************************************************)
(* C24                                                                     *)
(***************************************************************************)
\* process_query returned the text of _generate_fallback_query
FallbackServed == Called(qg) /\ qg.ok /\ qg.val.tier = "fallback"

\* The entity mentions of the Understanding that match the warehouse-ID pattern
MentionedWarehouses(u) ==
    LET ents == GetT(u.entities, PyList(<<>>)).v
    IN {ents[i] : i \in {j \in 1..Len(ents) : HasWH(ents[j])}}

\* C24: the fallback query is the risk-identification listing when intent is
\* "risk_identification"; otherwise the specific-warehouse lookup if and only
\* if some entity mention matches the warehouse-ID pattern, and then it looks
\* up a mentioned warehouse; otherwise the exploratory listing; and every
\* fallback query carries a LIMIT.
C24_FallbackDecisionRule ==
    FallbackServed =>
        LET u == qg.val.understanding
            q == qg.val.cypher_query
            risk == Get(u.intent, "exploration") = "risk_identification"
        IN /\ risk <=> Body(q) = "fb:risk"
           /\ ~risk => (/\ (MentionedWarehouses(u) # {}) <=> (Body(q) = "fb:warehouse")
                        /\ (MentionedWarehouses(u) = {}) <=> (Body(q) = "fb:explore"))
           /\ Body(q) = "fb:warehouse" => \E w \in MentionedWarehouses(u) : Contains(q, w)
           /\ Contains(q, "LIMIT")

(***************************************************************************)
(* C25                                                                     *)
(***************************************************************************)
\* The branch of the decision rule that produced a fallback text
FallbackBranch(q) == Body(q)

\* The query texts written out in _generate_fallback_query, with the default
\* identifier of the lookup
HardcodedFallbacks ==
    {generate_fallback_query(ServiceObject(i, PyList(<<>>), "full")).val :
        i \in {"risk_identification", "general_lookup"}}
    \cup {generate_fallback_query(
              ServiceObject("general_lookup", PyList(<<"warehouse">>), "full")).val}

\* Texts the service may put in the entities of an Understanding
ServiceMentions ==
    UNION {{e.v[i] : i \in 1..Len(e.v)} : e \in ServiceEntities}

\* C25: the fallback text is one of a fixed set of hardcoded strings
\* determined by the branch of the decision rule alone, and no text produced
\* by the text-generation service is embedded in the query sent to the store.
C25_FallbackTextIsHardcoded ==
    FallbackServed =>
        LET q == qg.val.cypher_query
        IN /\ q \in HardcodedFallbacks
           /\ \A h \in HardcodedFallbacks : FallbackBranch(h) = FallbackBranch(q) => h = q
           /\ \A i \in 1..Len(q) : q[i] \notin ServiceMentions

(***************************************************************************)
(* C26                                                                     *)
(***************************************************************************)
\* C26: a process_query request that reaches answer generation makes exactly
\* one text-generation service call inside the Answer Generator.
C26_OneServiceCallPerAnswer ==
    (Called(qg) /\ Called(ans.ret)) => llmCalls.answer = 1

(***************************************************************************)
(* C27                                                                     *)
(***************************************************************************)
\* process_query of the Query Generator returned a template
TemplateServed == Called(qg) /\ qg.ok /\ qg.val.tier = "template"

\* C27: every template of the library can be executed with an empty
\* parameter mapping: no template refers to a query parameter, so the
\* primary query of a template hit, which the Executor runs without
\* parameters, is never rejected for an unbound parameter.
C27_TemplatesNeedNoParameters ==
    /\ TemplateServed => ParamsOf(qg.val.cypher_query) = {}
    /\ (TemplateServed /\ Called(exec)) =>
          /\ storeCalls[1].query = qg.val.cypher_query
          /\ ParamsOf(storeCalls[1].query) \subseteq storeCalls[1].params

(***************************************************************************)
(* C28                                                                     *)
(***************************************************************************)
\* C28: when recommendations are derived for an n-record result, the list
\* has exactly one entry for each of the first min(3, n) records, in result
\* order, holding the record's warehouse identifier, its priority label and
\* its action list, whichever tier produced the records.
C28_OneRecommendationPerTopRecord ==
    (Called(qg) /\ Called(recs) /\ recs.ok) =>
        LET results == exec.val.results
        IN /\ Len(recs.val) = Min(3, Len(results))
           /\ \A i \in 1..Min(Len(recs.val), Len(results)) :
                 /\ recs.val[i].warehouse_id = results[i].warehouse_id
                 /\ recs.val[i].priority = calculate_priority(results[i]).val
                 /\ recs.val[i].actions = suggest_actions(results[i]).val

(***************************************************************************)
(* C29                                                                     *)
(***************************************************************************)
\* The records that get a recommendation entry: those of the first three
\* with a warehouse identifier, in result order
Recommended(results) ==
    SelectSeq(Take(results, 3), LAMBDA r : Get(r.warehouse_id, Null) \notin {Null, ""})

\* C29: within one recommendation entry, whenever the incident count read by
\* the priority rule exceeds 2, the action list of the entry contains
\* "Investigate recurring incident patterns" and is not just "Continue
\* monitoring".
C29_PriorityAndActionsAgreeOnIncidents ==
    (Called(qg) /\ Called(recs) /\ recs.ok) =>
        LET records == Recommended(exec.val.results)
        IN \A i \in 1..Len(recs.val) :
              Value(CountRead(records[i])) > 2 =>
                 /\ recs.val[i].priority \in {"HIGH", "CRITICAL"}
                 /\ Contains(recs.val[i].actions, "Investigate recurring incident patterns")
                 /\ recs.val[i].actions # <<"Continue monitoring">>

(***************************************************************************)
(* C30                                                                     *)
(***************************************************************************)
\* The record has the shape the aggregate profile query returns: the
\* warehouse node under w and no top-level risk_score column
ProfileShaped(data) == data.risk_score = AbsentNum /\ data.w.risk_score.t = "num"

\* C30: for the profile record of a warehouse whose stored risk_score exceeds
\* 0.7, the issue list that _identify_issues builds for the recommendation
\* prompt contains the critical high_risk issue.
C30_HighStoredRiskScoreIsAnIssue ==
    (IssuesApplied /\ ProfileShaped(ruleInput.data)
        /\ ruleInput.data.w.risk_score.v > 700) =>
        \E i \in 1..Len(ruleOutput.ret.val) :
            /\ ruleOutput.ret.val[i].type = "high_risk"
            /\ ruleOutput.ret.val[i].severity = "critical"

====
